---------------------------- MODULE Spec2Model ----------------------------
(***************************************************************************)
(* Model of the password-strength tester: password_checker.py (the rule    *)
(* engine, the entropy and crack-time estimators, the blacklist and the    *)
(* breach lookup) and app.py (the index request handler that evaluates a   *)
(* submission, extracts the fields to store and persists them).            *)
(*                                                                         *)
(* Text is modelled by TLA+ strings, character by character.  The emoji of *)
(* the source cannot be written in a TLA+ string; each is replaced by an   *)
(* ASCII tag of its own:                                                   *)
(*    check mark "[v]"   warning sign "[!]"   cross mark "[x]"             *)
(*    thumbs up  "[+]"   padlock      "[#]"   stopwatch  "[t]"             *)
(* One behaviour of the model is one submission, from the arrival of the   *)
(* request to the rendered page (or to the exception, or to the blocked    *)
(* network call).                                                          *)
(***************************************************************************)
EXTENDS Integers, Sequences, FiniteSets, TLC

(***************************************************************************)
(* Python's str operations, on TLA+ strings.                               *)
(***************************************************************************)
Char(s, i) == SubSeq(s, i, i)

Chars(s) == { Char(s, i) : i \in 1..Len(s) }

\* str.startswith
StartsWith(s, p) == Len(p) <= Len(s) /\ SubSeq(s, 1, Len(p)) = p

\* needle in hay
Contains(hay, needle) ==
    \E i \in 1..(Len(hay) - Len(needle) + 1) :
        SubSeq(hay, i, i + Len(needle) - 1) = needle

LowerLetters == "abcdefghijklmnopqrstuvwxyz"
UpperLetters == "ABCDEFGHIJKLMNOPQRSTUVWXYZ"
Digits == "0123456789"
\* the literal of password_checker.py lines 70, 71 and 139
Symbols == "!@#$%^&*(),.?\":{}|<>"
\* the whitespace of the modelled texts: space, tab, newline, carriage return
Whitespace == " \t\n\r"

islower(c) == c \in Chars(LowerLetters)
isupper(c) == c \in Chars(UpperLetters)
isdigit(c) == c \in Chars(Digits)
isspace(c) == c \in Chars(Whitespace)

\* str.lower, one character
LowerChar(c) ==
    IF isupper(c)
    THEN Char(LowerLetters, CHOOSE i \in 1..Len(UpperLetters) : Char(UpperLetters, i) = c)
    ELSE c

RECURSIVE lower(_)
lower(s) == IF s = "" THEN "" ELSE LowerChar(Head(s)) \o lower(Tail(s))

\* the k-th smallest element of a set of numbers
Nth(P, k) == CHOOSE i \in P : Cardinality({ j \in P : j <= i }) = k

\* the pieces of s between the cut positions of P (each cut is one character
\* that belongs to no piece), the piece after the last cut included
PiecesBetween(s, P) ==
    [ k \in 1..(Cardinality(P) + 1) |->
        SubSeq(s,
               IF k = 1 THEN 1 ELSE Nth(P, k - 1) + 1,
               IF k = Cardinality(P) + 1 THEN Len(s) ELSE Nth(P, k) - 1) ]

\* s.split(sep) for a one-character separator: always at least one piece
split(s, sep) == PiecesBetween(s, { i \in 1..Len(s) : Char(s, i) = sep })

\* s.split() without a separator: runs of whitespace separate, no empty piece
RECURSIVE SplitWsFrom(_, _)
SplitWsFrom(s, cur) ==
    IF s = "" THEN (IF cur = "" THEN << >> ELSE << cur >>)
    ELSE IF isspace(Head(s))
         THEN (IF cur = "" THEN << >> ELSE << cur >>) \o SplitWsFrom(Tail(s), "")
    ELSE SplitWsFrom(Tail(s), cur \o Head(s))

splitws(s) == SplitWsFrom(s, "")

\* text.splitlines(): "\n", "\r" and "\r\n" end a line; no piece after the
\* last line end
splitlines(s) ==
    LET ends == { i \in 1..Len(s) :
                    \/ Char(s, i) = "\n"
                    \/ Char(s, i) = "\r" /\ (i = Len(s) \/ Char(s, i + 1) # "\n") }
        cut(piece) ==
            IF piece # "" /\ Char(piece, Len(piece)) = "\r"
            THEN SubSeq(piece, 1, Len(piece) - 1) ELSE piece
        pieces == PiecesBetween(s, ends)
        n == IF pieces[Len(pieces)] = "" THEN Len(pieces) - 1 ELSE Len(pieces)
    IN  [ k \in 1..n |-> IF k <= Cardinality(ends) THEN cut(pieces[k]) ELSE pieces[k] ]

\* sep.join(pieces)
RECURSIVE join(_, _)
join(sep, pieces) ==
    IF pieces = << >> THEN ""
    ELSE IF Len(pieces) = 1 THEN pieces[1]
    ELSE pieces[1] \o sep \o join(sep, Tail(pieces))

\* s.strip()
RECURSIVE lstrip(_)
lstrip(s) == IF s # "" /\ isspace(Head(s)) THEN lstrip(Tail(s)) ELSE s

RECURSIVE rstrip(_)
rstrip(s) ==
    IF s # "" /\ isspace(Char(s, Len(s))) THEN rstrip(SubSeq(s, 1, Len(s) - 1)) ELSE s

strip(s) == rstrip(lstrip(s))

(***************************************************************************)
(* Bounds of the model.                                                    *)
(***************************************************************************)
\* generated passwords have at most this many characters
MaxLen == 2
\* a response body has at most this many lines
MaxLines == 2

(***************************************************************************)
(* The inputs.                                                             *)
(***************************************************************************)
\* Python's None (an optional value is a sequence of length 0 or 1)
None == << >>
Some(x) == << x >>

\* one character of each of the five recognized classes
Alphabet == Chars("aA1! ")

RECURSIVE Strs(_)
Strs(n) ==
    IF n = 0 THEN {""}
    ELSE LET S == Strs(n - 1) IN S \cup { s \o c : s \in S, c \in Alphabet }

SamplePasswords ==
    { "password", "123456", "alice123XYZ!", "Tr0ub4dor&3xyz",
      "correct horse battery staple", "Correct1 horse! battery staple",
      "one two three four",
      \* characters of no recognized class, alone and with whitespace
      "~", "~_ -" }

Passwords == Strs(MaxLen) \cup SamplePasswords

\* what the form of index.html posts: username and email are strings
FormAccounts ==
    { << "alice", "alice@x.com" >>, << "bob", "" >>, << "bob", "A1@x.com" >>,
      << "", "@x.com" >> }

\* what the terminal loop of password_checker.py reads
CliUsernames == { "a" }

(***************************************************************************)
(* hashlib.sha1(password.encode('utf-8')).hexdigest().upper()              *)
(* SHA-1 itself is the library's.  The model keeps what the code relies    *)
(* on: the digest is a function of the password alone and is 40 uppercase  *)
(* hexadecimal digits.  The stand-in below is a polynomial hash of the     *)
(* character codes; its first five digits take few values, so that two     *)
(* passwords of the model can share a prefix and differ in the suffix, and *)
(* digits 6 to 10 spell the whole hash, so that different hashes differ in *)
(* the suffix.                                                             *)
(***************************************************************************)
\* the printable ASCII characters, codes 32 to 95 and 97 to 126 (a TLA+
\* string cannot hold the grave accent, code 96)
AsciiTo95 ==
    " !\"#$%&'()*+,-./0123456789:;<=>?@ABCDEFGHIJKLMNOPQRSTUVWXYZ[\\]^_"
AsciiFrom97 == "abcdefghijklmnopqrstuvwxyz{|}~"

ord(c) ==
    IF c \in Chars(AsciiTo95)
    THEN 31 + (CHOOSE i \in 1..Len(AsciiTo95) : Char(AsciiTo95, i) = c)
    ELSE 96 + (CHOOSE i \in 1..Len(AsciiFrom97) : Char(AsciiFrom97, i) = c)

HexDigits == "0123456789ABCDEF"

RECURSIVE Mix(_, _)
Mix(s, acc) ==
    IF s = "" THEN acc ELSE Mix(Tail(s), (acc * 31 + ord(Head(s))) % 1048573)

RECURSIVE Pow16(_)
Pow16(k) == IF k = 0 THEN 1 ELSE 16 * Pow16(k - 1)

DigestDigit(h, i) ==
    IF i <= 5
    THEN ((h % 3) * (i + 1) + i) % 16
    ELSE ((h \div Pow16((i - 6) % 5)) + ((i - 6) \div 5)) % 16

HexChar(h, i) == Char(HexDigits, DigestDigit(h, i) + 1)

\* five digits of the digest, from digit i on
Hex5(h, i) ==
    HexChar(h, i) \o HexChar(h, i + 1) \o HexChar(h, i + 2) \o HexChar(h, i + 3)
    \o HexChar(h, i + 4)

Digest(h) ==
    Hex5(h, 1) \o Hex5(h, 6) \o Hex5(h, 11) \o Hex5(h, 16) \o Hex5(h, 21)
    \o Hex5(h, 26) \o Hex5(h, 31) \o Hex5(h, 36)

sha1_hexdigest_upper(password) == Digest(Mix(password, 7))

\* the two digests the source lists are those of "password" and "123456"
HASHED_BLACKLIST ==
    { sha1_hexdigest_upper("password"), sha1_hexdigest_upper("123456") }

is_in_hashed_blacklist(password) ==
    sha1_hexdigest_upper(password) \in HASHED_BLACKLIST

(***************************************************************************)
(* is_password_breached: the request, and what it makes of the response.   *)
(***************************************************************************)
hash_prefix(sha1_hash) == SubSeq(sha1_hash, 1, 5)
hash_suffix(sha1_hash) == SubSeq(sha1_hash, 6, Len(sha1_hash))

\* the request keyed by the whole digest
breach_url_full_digest(password) ==
    "https://api.pwnedpasswords.com/range/" \o sha1_hexdigest_upper(password)

\* the url of the GET request, the only thing the request carries
breach_url(password) ==
    "https://api.pwnedpasswords.com/range/" \o hash_prefix(sha1_hexdigest_upper(password))

\* the loop over the parsed lines: "True" at the first line whose suffix
\* matches, "ValueError" at the first line that does not split into two
\* pieces (the unpacking of the for statement), "False" at the end
RECURSIVE scan_hashes(_, _)
scan_hashes(lines, suffix) ==
    IF lines = << >> THEN "False"
    ELSE LET pieces == split(Head(lines), ":") IN
         IF Len(pieces) # 2 THEN "ValueError"
         ELSE IF pieces[1] = suffix THEN "True"
         ELSE scan_hashes(Tail(lines), suffix)

\* lines 36 to 49, on the response received
breach_result(password, response) ==
    IF response.status_code # 200 THEN "False"
    ELSE scan_hashes(splitlines(response.text),
                     hash_suffix(sha1_hexdigest_upper(password)))

\* The service's possible answers to the request for a password: a body
\* is made of the line of the password's own suffix, the line of another
\* suffix, and lines that are not of the form suffix:count (no colon, two
\* colons).
OwnLine(password) == hash_suffix(sha1_hexdigest_upper(password)) \o ":3"

BodyLines(password) ==
    { OwnLine(password),
      hash_suffix(sha1_hexdigest_upper("123456")) \o ":12",
      "<html>",
      "0:1:2" }

RECURSIVE LineSeqs(_, _)
LineSeqs(L, n) ==
    IF n = 0 THEN { << >> }
    ELSE LET S == LineSeqs(L, n - 1) IN S \cup { Append(q, l) : q \in S, l \in L }

Bodies(password) == { join("\n", q) : q \in LineSeqs(BodyLines(password), MaxLines) }

Responses(password) ==
    { [status_code |-> 200, text |-> b] : b \in Bodies(password) }
    \cup { [status_code |-> s, text |-> t] :
               s \in {429, 503}, t \in {"", OwnLine(password)} }

(***************************************************************************)
(* calculate_entropy and estimate_crack_time.  An entropy is held in       *)
(* hundredths of a bit: the code rounds it to 2 decimal places.            *)
(***************************************************************************)
\* possible_characters with the symbol class forgotten
possible_characters_no_symbols(password) ==
      (IF \E c \in Chars(password) : islower(c) THEN 26 ELSE 0)
    + (IF \E c \in Chars(password) : isupper(c) THEN 26 ELSE 0)
    + (IF \E c \in Chars(password) : isdigit(c) THEN 10 ELSE 0)
    + (IF \E c \in Chars(password) : isspace(c) THEN 1 ELSE 0)

possible_characters(password) ==
      (IF \E c \in Chars(password) : islower(c) THEN 26 ELSE 0)
    + (IF \E c \in Chars(password) : isupper(c) THEN 26 ELSE 0)
    + (IF \E c \in Chars(password) : isdigit(c) THEN 10 ELSE 0)
    + (IF \E c \in Chars(password) : c \in Chars(Symbols) THEN Len(Symbols) ELSE 0)
    + (IF \E c \in Chars(password) : isspace(c) THEN 1 ELSE 0)

\* math.log2(n) in millionths, for the sizes possible_characters can take
Log2Micro(n) ==
    CASE n = 1 -> 0        [] n = 10 -> 3321928 [] n = 11 -> 3459432
      [] n = 20 -> 4321928 [] n = 21 -> 4392317 [] n = 26 -> 4700440
      [] n = 27 -> 4754888 [] n = 30 -> 4906891 [] n = 31 -> 4954196
      [] n = 36 -> 5169925 [] n = 37 -> 5209453 [] n = 46 -> 5523562
      [] n = 47 -> 5554589 [] n = 52 -> 5700440 [] n = 53 -> 5727920
      [] n = 56 -> 5807355 [] n = 57 -> 5832890 [] n = 62 -> 5954196
      [] n = 63 -> 5977280 [] n = 72 -> 6169925 [] n = 73 -> 6189825
      [] n = 82 -> 6357552 [] n = 83 -> 6375039

\* round(math.log2(possible_characters) * len(password), 2), in hundredths
\* (the table's precision gives the code's value for up to 40 characters)
calculate_entropy(password) ==
    IF possible_characters(password) = 0 THEN 0
    ELSE (Log2Micro(possible_characters(password)) * Len(password) + 5000) \div 10000

\* str() of a float with at most two decimals, from its hundredths
FloatStr(centi) ==
    ToString(centi \div 100) \o "." \o
    (IF centi % 10 = 0 THEN ToString((centi % 100) \div 10)
     ELSE ToString((centi % 100) \div 10) \o ToString(centi % 10))

\* f"{entropy}": the guard of line 79 returns the int 0, line 85 a float
entropy_str(password) ==
    IF possible_characters(password) = 0 THEN "0"
    ELSE FloatStr(calculate_entropy(password))

\* The thresholds on seconds = 2 ** entropy / 1e10 are met at these
\* entropies (in hundredths): 33.22, 39.13, 45.04, 49.62, 58.13, 64.78 bits.
\* The rounded count of a bucket is written N: nothing reads it.
estimate_crack_time(entropy) ==
    IF entropy < 3322 THEN "less than 1 second"
    ELSE IF entropy < 3913 THEN "N seconds"
    ELSE IF entropy < 4504 THEN "N minutes"
    ELSE IF entropy < 4962 THEN "N hours"
    ELSE IF entropy < 5813 THEN "N days"
    ELSE IF entropy < 6478 THEN "N years"
    ELSE "centuries or more"

(***************************************************************************)
(* check_password_strength: the conditions of the rules, the messages and  *)
(* the classification.                                                     *)
(***************************************************************************)
rule1_ok(password) == Len(password) >= 12
rule2_ok(password) == \E c \in Chars(password) : isupper(c)
rule3_ok(password) == \E c \in Chars(password) : islower(c)
rule4_ok(password) == \E c \in Chars(password) : isdigit(c)
rule5_ok(password) == \E c \in Chars(password) : c \in Chars(Symbols)

\* rule 6 comparing the password as typed, not lower-cased
rule6_violated_case_sensitive(username, password, email) ==
    \/ Contains(password, lower(username))
    \/ /\ email # None
       /\ email[1] # ""
       /\ Contains(password, split(lower(email[1]), "@")[1])

\* the condition of line 145: an email that is None or "" is falsy
rule6_violated(username, password, email) ==
    \/ Contains(lower(password), lower(username))
    \/ /\ email # None
       /\ email[1] # ""
       /\ Contains(lower(password), split(lower(email[1]), "@")[1])

\* the condition of line 157
rule8_ok(password) ==
    /\ Len(splitws(password)) >= 4
    /\ \A k \in 1..Len(splitws(password)) : Len(splitws(password)[k]) > 3

MsgRule1 == "Password must be at least 12 characters long."
MsgRule2 == "Add at least one uppercase letter."
MsgRule3 == "Add at least one lowercase letter."
MsgRule4 == "Include at least one number."
MsgRule5 == "Include at least one special character."
MsgRule6 == "Don't use your username or email in the password."
MsgRule7 == "This password is blacklisted (too common)."
MsgRule8 == "[+] Good! You're using a passphrase."
MsgRule9 == "[!] This password has appeared in a known data breach."

StrongMarker == "[v] Strong password!\n"
ModerateMarker == "[!] Moderate password.\n Consider improving:\n"
WeakMarker == "[x] Weak password:\n"

\* the classification with the Strong threshold off by one
classify_strict(score) ==
    IF score > 6 THEN StrongMarker
    ELSE IF score >= 4 THEN ModerateMarker
    ELSE WeakMarker

\* lines 178 to 183: the marker the report starts with
classify(score) ==
    IF score >= 6 THEN StrongMarker
    ELSE IF score >= 4 THEN ModerateMarker
    ELSE WeakMarker

(***************************************************************************)
(* index: what it extracts from the report.                                *)
(***************************************************************************)
\* lines 26 to 36
extract_core_feedback(report) ==
    LET lines == split(report, "\n") IN
    strip(join("\n", IF Len(lines) >= 4
                     THEN SubSeq(lines, 2, Len(lines) - 2)
                     ELSE SubSeq(lines, 2, Len(lines))))

\* next((line for line in lines if word in line), None)
RECURSIVE first_line_with(_, _)
first_line_with(lines, word) ==
    IF lines = << >> THEN None
    ELSE IF Contains(Head(lines), word) THEN Some(Head(lines))
    ELSE first_line_with(Tail(lines), word)

\* int() of a string of decimal digits
RECURSIVE DigitsValue(_, _)
DigitsValue(s, acc) ==
    IF s = "" THEN acc
    ELSE DigitsValue(Tail(s),
             10 * acc + (CHOOSE d \in 0..9 : Char(Digits, d + 1) = Head(s)))

\* float() of a decimal text with at most two decimals, in hundredths
float_centi(text) ==
    LET parts == split(text, ".") IN
    IF Len(parts) = 1 THEN 100 * DigitsValue(parts[1], 0)
    ELSE 100 * DigitsValue(parts[1], 0)
         + (IF Len(parts[2]) = 1 THEN 10 * DigitsValue(parts[2], 0)
            ELSE DigitsValue(parts[2], 0))

\* lines 40 and 41
extract_entropy(report) ==
    LET entropy_line == first_line_with(split(report, "\n"), "Entropy") IN
    IF entropy_line = None THEN 0
    ELSE float_centi(splitws(strip(split(entropy_line[1], ":")[2]))[1])

\* lines 44 and 45
extract_crack_time(report) ==
    LET crack_time_line == first_line_with(split(report, "\n"), "crack time") IN
    IF crack_time_line = None THEN "Unknown"
    ELSE strip(split(crack_time_line[1], ":")[2])

\* lines 48 to 53
extract_strength(report) ==
    IF StartsWith(report, "[v]") THEN "strong"
    ELSE IF StartsWith(report, "[!]") THEN "moderate"
    ELSE "weak"

(***************************************************************************)
(* The state.                                                              *)
(***************************************************************************)
VARIABLES
    pc,              \* where the submission is
    caller,          \* "index" (the web form) or "cli" (the terminal loop)
    username, email, password,   \* the arguments of check_password_strength
    score, feedback, \* its locals: the points and the list of messages
    entropy, crack_time,
    url,             \* the url of the GET request sent ("" before)
    service,         \* what the lookup service does with the request
    response,        \* the response received (None before)
    exc,             \* the exception that left the handler ("" if none)
    returned,        \* the report check_password_strength returned
    index_feedback, strength,    \* the locals feedback and strength of index
    core_feedback, row_entropy, row_crack_time,   \* the other locals of index
    session,         \* the database session: "none", "open" or "closed"
    table,           \* the committed rows of password_results
    stdout,          \* what print wrote
    rendered         \* the arguments given to render_template

rule_vars == << score, feedback >>
input_vars == << caller, username, email, password >>
net_vars == << url, service, response >>
report_vars == << entropy, crack_time, returned >>
index_vars == << index_feedback, strength, core_feedback, row_entropy, row_crack_time >>
db_vars == << session, table >>

vars == << pc, input_vars, rule_vars, net_vars, report_vars, index_vars,
           db_vars, stdout, exc, rendered >>

Init ==
    /\ pc = "idle"
    /\ caller = "" /\ username = "" /\ email = None /\ password = ""
    /\ score = 0 /\ feedback = << >>
    /\ entropy = 0 /\ crack_time = ""
    /\ url = "" /\ service = "" /\ response = None
    /\ exc = "" /\ returned = None
    /\ index_feedback = None /\ strength = None
    /\ core_feedback = "" /\ row_entropy = 0 /\ row_crack_time = ""
    /\ session = "none" /\ table = << >>
    /\ stdout = << >>
    /\ rendered = None

(***************************************************************************)
(* The entry points.                                                       *)
(***************************************************************************)
\* app.py lines 12 to 24: a POST of the form; index calls
\* check_password_strength(username, password, email=email)
IndexPost(u, e, p) ==
    /\ pc = "idle"
    /\ caller' = "index" /\ username' = u /\ email' = Some(e) /\ password' = p
    /\ score' = 0 /\ feedback' = << >>
    /\ pc' = "rule1"
    /\ UNCHANGED << net_vars, report_vars, index_vars, db_vars, stdout, exc, rendered >>

\* app.py lines 12 to 17 and 73: a GET renders the page with None and None
IndexGet ==
    /\ pc = "idle"
    /\ caller' = "index"
    /\ rendered' = Some([feedback |-> index_feedback, strength |-> strength])
    /\ pc' = "rendered"
    /\ UNCHANGED << username, email, password, rule_vars, net_vars, report_vars,
                    index_vars, db_vars, stdout, exc >>

\* password_checker.py lines 188 to 191: the terminal loop calls
\* check_password_strength(username, password), email defaults to None
CliPrompt(u, p) ==
    /\ pc = "idle"
    /\ caller' = "cli" /\ username' = u /\ email' = None /\ password' = p
    /\ score' = 0 /\ feedback' = << >>
    /\ pc' = "rule1"
    /\ UNCHANGED << net_vars, report_vars, index_vars, db_vars, stdout, exc, rendered >>

(***************************************************************************)
(* check_password_strength, rule by rule.                                  *)
(***************************************************************************)
Pass == score' = score + 1 /\ UNCHANGED feedback
Fail(msg) == feedback' = Append(feedback, msg) /\ UNCHANGED score

RuleFrame ==
    UNCHANGED << input_vars, net_vars, report_vars, index_vars, db_vars,
                 stdout, exc, rendered >>

Rule1 ==
    /\ pc = "rule1"
    /\ IF rule1_ok(password) THEN Pass ELSE Fail(MsgRule1)
    /\ pc' = "rule2"
    /\ RuleFrame

Rule2 ==
    /\ pc = "rule2"
    /\ IF rule2_ok(password) THEN Pass ELSE Fail(MsgRule2)
    /\ pc' = "rule3"
    /\ RuleFrame

Rule3 ==
    /\ pc = "rule3"
    /\ IF rule3_ok(password) THEN Pass ELSE Fail(MsgRule3)
    /\ pc' = "rule4"
    /\ RuleFrame

Rule4 ==
    /\ pc = "rule4"
    /\ IF rule4_ok(password) THEN Pass ELSE Fail(MsgRule4)
    /\ pc' = "rule5"
    /\ RuleFrame

Rule5 ==
    /\ pc = "rule5"
    /\ IF rule5_ok(password) THEN Pass ELSE Fail(MsgRule5)
    /\ pc' = "rule6"
    /\ RuleFrame

Rule6 ==
    /\ pc = "rule6"
    /\ IF rule6_violated(username, password, email) THEN Fail(MsgRule6) ELSE Pass
    /\ pc' = "rule7"
    /\ RuleFrame

\* rule 7 with the point added on both branches
Rule7_point_and_message ==
    /\ pc = "rule7"
    /\ IF is_in_hashed_blacklist(password)
       THEN score' = score + 1 /\ feedback' = Append(feedback, MsgRule7)
       ELSE Pass
    /\ pc' = "rule8"
    /\ RuleFrame

Rule7 ==
    /\ pc = "rule7"
    /\ IF is_in_hashed_blacklist(password) THEN Fail(MsgRule7) ELSE Pass
    /\ pc' = "rule8"
    /\ RuleFrame

\* the bonus: a point and a message, or nothing
Rule8 ==
    /\ pc = "rule8"
    /\ IF rule8_ok(password)
       THEN score' = score + 1 /\ feedback' = Append(feedback, MsgRule8)
       ELSE UNCHANGED << score, feedback >>
    /\ pc' = "rule9"
    /\ RuleFrame

(***************************************************************************)
(* Rule 9: is_password_breached.  requests.get(url) is called without a    *)
(* timeout: it returns when the service answers, raises when the           *)
(* connection fails, and otherwise blocks.                                 *)
(***************************************************************************)
Services == { "answers", "unreachable", "silent" }

\* lines 23 to 33: the digest, the url, and the GET request sent
SendRequest ==
    /\ pc = "rule9"
    /\ url' = breach_url(password)
    /\ service' \in Services
    /\ pc' = "waiting"
    /\ UNCHANGED << response, input_vars, rule_vars, report_vars, index_vars,
                    db_vars, stdout, exc, rendered >>

\* line 33 returns: the service answered
Respond(r) ==
    /\ pc = "waiting" /\ service = "answers"
    /\ response' = Some(r)
    /\ pc' = "responded"
    /\ UNCHANGED << url, service, input_vars, rule_vars, report_vars, index_vars,
                    db_vars, stdout, exc, rendered >>

\* line 33 raises: nothing catches the exception, neither in
\* is_password_breached nor in check_password_strength nor in index
RequestRaises ==
    /\ pc = "waiting" /\ service = "unreachable"
    /\ exc' = "requests.exceptions.ConnectionError"
    /\ pc' = "raised"
    /\ UNCHANGED << input_vars, rule_vars, net_vars, report_vars, index_vars,
                    db_vars, stdout, rendered >>

\* lines 36 to 49, then lines 162 to 165; the response is a local of
\* is_password_breached and is gone when it returns or raises
Rule9 ==
    /\ pc = "responded"
    /\ LET breached == breach_result(password, response[1]) IN
       IF breached = "ValueError"
       THEN /\ exc' = "ValueError"
            /\ pc' = "raised"
            /\ UNCHANGED << score, feedback >>
       ELSE /\ IF breached = "True" THEN Fail(MsgRule9) ELSE Pass
            /\ pc' = "rule10"
            /\ UNCHANGED exc
    /\ response' = None
    /\ UNCHANGED << url, service, input_vars, report_vars, index_vars, db_vars,
                    stdout, rendered >>

\* lines 168 to 183: the two last lines, the marker, the report returned
Finish ==
    /\ pc = "rule10"
    /\ entropy' = calculate_entropy(password)
    /\ crack_time' = estimate_crack_time(entropy')
    /\ feedback' = feedback \o << "[#] Entropy: " \o entropy_str(password) \o " bits",
                                  "[t] Estimated crack time: " \o crack_time' >>
    /\ returned' = Some(classify(score) \o join("\n", feedback'))
    /\ pc' = "returned"
    /\ UNCHANGED << score, input_vars, net_vars, index_vars, db_vars, stdout,
                    exc, rendered >>

\* password_checker.py lines 191 and 192
CliPrint ==
    /\ pc = "returned" /\ caller = "cli"
    /\ stdout' = stdout \o << returned[1], "----------------------------------------" >>
    /\ pc' = "printed"
    /\ UNCHANGED << input_vars, rule_vars, net_vars, report_vars, index_vars,
                    db_vars, exc, rendered >>

(***************************************************************************)
(* index, after the evaluation.                                            *)
(***************************************************************************)
\* app.py lines 24 to 53
IndexExtract ==
    /\ pc = "returned" /\ caller = "index"
    /\ index_feedback' = returned
    /\ core_feedback' = extract_core_feedback(returned[1])
    /\ row_entropy' = extract_entropy(returned[1])
    /\ row_crack_time' = extract_crack_time(returned[1])
    /\ strength' = Some(extract_strength(returned[1]))
    /\ pc' = "persist"
    /\ UNCHANGED << input_vars, rule_vars, net_vars, report_vars, db_vars,
                    stdout, exc, rendered >>

DbSteps == { "SessionLocal", "add", "commit", "close" }

\* the persistence without the except clause: a failure leaves the handler
Persist_uncaught(failAt) ==
    /\ pc = "persist"
    /\ session' = IF failAt = "SessionLocal" THEN "none"
                  ELSE IF failAt = "none" THEN "closed"
                  ELSE "open"
    /\ table' = IF failAt \in { "none", "close" }
                THEN Append(table, [username |-> username, email |-> email[1],
                                    entropy |-> row_entropy,
                                    crack_time |-> row_crack_time,
                                    strength |-> strength[1],
                                    feedback |-> core_feedback])
                ELSE table
    /\ exc' = IF failAt = "none" THEN exc ELSE "sqlalchemy.exc.SQLAlchemyError"
    /\ pc' = IF failAt = "none" THEN "render" ELSE "raised"
    /\ UNCHANGED << input_vars, rule_vars, net_vars, report_vars, index_vars,
                    stdout, rendered >>

\* app.py lines 56 to 70: the try block, failing at step failAt or at none; a
\* failure is caught, printed, and the handler goes on to line 73
Persist(failAt) ==
    /\ pc = "persist"
    /\ session' = IF failAt = "SessionLocal" THEN "none"
                  ELSE IF failAt = "none" THEN "closed"
                  ELSE "open"
    /\ table' = IF failAt \in { "none", "close" }
                THEN Append(table, [username |-> username, email |-> email[1],
                                    entropy |-> row_entropy,
                                    crack_time |-> row_crack_time,
                                    strength |-> strength[1],
                                    feedback |-> core_feedback])
                ELSE table
    /\ stdout' = IF failAt = "none" THEN stdout
                 ELSE Append(stdout, "[x] SQLAlchemy error: " \o failAt)
    /\ pc' = "render"
    /\ UNCHANGED << input_vars, rule_vars, net_vars, report_vars, index_vars,
                    exc, rendered >>

\* app.py line 73
Render ==
    /\ pc = "render"
    /\ rendered' = Some([feedback |-> index_feedback, strength |-> strength])
    /\ pc' = "rendered"
    /\ UNCHANGED << input_vars, rule_vars, net_vars, report_vars, index_vars,
                    db_vars, stdout, exc >>

Next ==
    \/ \E a \in FormAccounts, p \in Passwords : IndexPost(a[1], a[2], p)
    \/ IndexGet
    \/ \E u \in CliUsernames, p \in Passwords : CliPrompt(u, p)
    \/ Rule1 \/ Rule2 \/ Rule3 \/ Rule4 \/ Rule5 \/ Rule6 \/ Rule7 \/ Rule8
    \/ SendRequest
    \/ pc = "waiting" /\ \E r \in Responses(password) : Respond(r)
    \/ RequestRaises
    \/ Rule9
    \/ Finish
    \/ CliPrint
    \/ IndexExtract
    \/ \E failAt \in DbSteps \cup { "none" } : Persist(failAt)
    \/ Render

Spec == Init /\ [][Next]_vars

\* The handler's steps are taken when they can be: a thread that is not
\* blocked runs, and a service that answers does answer.
FairSpec == Spec /\ WF_vars(Next)


(***************************************************************************)
(* The properties.                                                         *)
(***************************************************************************)
Range(q) == { q[k] : k \in 1..Len(q) }

\* the rule messages of a feedback list: all but the two last lines, once
\* Finish has appended them
RuleMessages == SubSeq(feedback, 1, Len(feedback) - 2)

\* the report starts with marker m
Leads(m) == returned # None /\ StartsWith(returned[1], m)

\* a line of a response body is of the form suffix:count
WellFormedLine(line) ==
    \E k \in 1..Len(line) :
        /\ Char(line, k) = ":"
        /\ \A j \in 1..Len(line) : Char(line, j) = ":" => j = k

\* the lookup failed: a status other than 200, or a body with a line that is
\* not of the form suffix:count
LookupFailed(r) ==
    \/ r.status_code # 200
    \/ \E k \in 1..Len(splitlines(r.text)) : ~WellFormedLine(splitlines(r.text)[k])

\* C1: every failure of the breach lookup (a status other than 200, an error
\* raised by the request, a body with a malformed line) yields "not
\* breached": rule 9 passes and adds its point, and nothing is raised.
C1_LookupFailureFailsOpen ==
    [][ /\ (pc = "waiting" /\ service = "unreachable") => pc' # "raised"
        /\ (pc = "responded" /\ LookupFailed(response[1])) =>
               (pc' = "rule10" /\ score' = score + 1 /\ feedback' = feedback)
      ]_vars

\* C2 as stated: the entropy is never negative, and it is 0 exactly when the
\* password is empty or has only characters outside all five classes.
C2_ZeroIffNoRecognizedClass ==
    returned # None =>
        /\ entropy >= 0
        /\ entropy = 0 <=>
              \A c \in Chars(password) :
                  ~(islower(c) \/ isupper(c) \/ isdigit(c)
                    \/ c \in Chars(Symbols) \/ isspace(c))

\* C2 as amended: the entropy is never negative, and it is 0 exactly when the
\* password has no lowercase letter, uppercase letter, digit or specified
\* symbol (it is empty, or made of whitespace and of characters outside all
\* classes only).
C2_ZeroIffNoLetterDigitSymbol ==
    returned # None =>
        /\ entropy >= 0
        /\ entropy = 0 <=>
              \A c \in Chars(password) :
                  ~(islower(c) \/ isupper(c) \/ isdigit(c) \/ c \in Chars(Symbols))

\* a password of whitespace only has been evaluated, with entropy 0
C2_Witness ==
    /\ returned # None
    /\ password # ""
    /\ \A c \in Chars(password) : isspace(c)
    /\ entropy = 0

\* the rank of a classification marker
Rank(m) == IF m = StrongMarker THEN 3 ELSE IF m = ModerateMarker THEN 2 ELSE 1

\* C3: the classification is a total, monotonic function of the score: a
\* score of 6 or more leads the report with the Strong marker, 4 or 5 with
\* the Moderate marker, less than 4 with the Weak marker, and no other marker
\* leads; over the scores 0 to 9 a higher score never ranks lower.
C3_ClassificationByScore ==
    /\ returned # None =>
          /\ score >= 6 => Leads("[v] Strong password!\n")
          /\ score \in {4, 5} => Leads("[!] Moderate password.\n Consider improving:\n")
          /\ score < 4 => Leads("[x] Weak password:\n")
          /\ Cardinality({ m \in { StrongMarker, ModerateMarker, WeakMarker } : Leads(m) }) = 1
    /\ \A lo \in 0..9 : \A hi \in lo..9 : Rank(classify(lo)) <= Rank(classify(hi))

\* a report of score exactly 6 has been returned, classified Strong
C3_Witness == returned # None /\ score = 6 /\ Leads(StrongMarker)

\* C4: the request depends on the 5-character prefix of the digest only: it
\* is the fixed base followed by the prefix, any password with the same
\* prefix gives the same request, and neither the suffix nor the digest is
\* part of it.
C4_RequestKeyedByPrefixOnly ==
    pc = "waiting" =>
        LET digest == sha1_hexdigest_upper(password) IN
        /\ url = "https://api.pwnedpasswords.com/range/" \o SubSeq(digest, 1, 5)
        /\ \A q \in Passwords :
              SubSeq(sha1_hexdigest_upper(q), 1, 5) = SubSeq(digest, 1, 5)
                  => breach_url(q) = url
        /\ ~Contains(url, SubSeq(digest, 6, 40))
        /\ ~Contains(url, digest)

\* a request has been sent for a password that shares its prefix with
\* another password of a different suffix
C4_Witness ==
    /\ pc = "waiting"
    /\ \E q \in Passwords :
          /\ q # password
          /\ SubSeq(sha1_hexdigest_upper(q), 1, 5) = SubSeq(sha1_hexdigest_upper(password), 1, 5)
          /\ SubSeq(sha1_hexdigest_upper(q), 6, 40) # SubSeq(sha1_hexdigest_upper(password), 6, 40)

\* C5: an evaluation whose lookup service never responds still returns a
\* report, the lookup being treated as "not breached".
C5_SilentServiceStillReturns ==
    (pc = "waiting" /\ service = "silent")
        ~> (returned # None /\ MsgRule9 \notin Range(feedback))

\* C6: for the empty password nothing is raised, whatever the lookup does,
\* and the report has entropy 0, the failure messages of rules 1 to 5 and the
\* Weak marker.
C6_EmptyPassword ==
    (caller # "" /\ password = "") =>
        /\ pc # "raised"
        /\ returned # None =>
              /\ entropy = 0
              /\ { MsgRule1, MsgRule2, MsgRule3, MsgRule4, MsgRule5 } \subseteq Range(feedback)
              /\ Leads(WeakMarker)

\* one step of a rule: a point and no message, or a message and no point
PointOrMessage ==
    \/ score' = score + 1 /\ feedback' = feedback
    \/ /\ score' = score
       /\ Len(feedback') = Len(feedback) + 1
       /\ SubSeq(feedback', 1, Len(feedback)) = feedback

\* C7: each of rules 1 to 7 and 9 adds exactly one point or appends exactly
\* one message, never both and never neither; rule 8 adds a point together
\* with its positive message, or does nothing; so once the rules have run the
\* score is in 0..9 and the failure messages number 8 minus the points of
\* rules 1 to 7 and 9.
C7_RuleAccounting ==
    [][ /\ pc \in { "rule1", "rule2", "rule3", "rule4", "rule5", "rule6", "rule7" }
              => PointOrMessage
        /\ (pc = "responded" /\ pc' = "rule10") => PointOrMessage
        /\ pc = "rule8" =>
              \/ score' = score + 1 /\ feedback' = Append(feedback, MsgRule8)
              \/ UNCHANGED << score, feedback >>
        /\ pc' = "rule10" =>
              LET bonus == IF MsgRule8 \in Range(feedback') THEN 1 ELSE 0 IN
              /\ score' \in 0..9
              /\ Cardinality({ k \in 1..Len(feedback') : feedback'[k] # MsgRule8 })
                     = 8 - (score' - bonus)
      ]_vars

\* the rules have run on a passphrase found breached: the bonus of rule 8
\* with its message, and the message of rule 9
C7_Witness ==
    /\ pc = "rule10"
    /\ MsgRule8 \in Range(feedback)
    /\ MsgRule9 \in Range(feedback)

\* the text of an email before its first "@" (the whole text without one)
LocalPart(e) ==
    IF \E k \in 1..Len(e) : Char(e, k) = "@"
    THEN SubSeq(e, 1, (CHOOSE k \in 1..Len(e) :
                          /\ Char(e, k) = "@"
                          /\ \A j \in 1..(k - 1) : Char(e, j) # "@") - 1)
    ELSE e

\* C8: rule 6 fails (its message, no point) exactly when the lower-cased
\* password contains the lower-cased username, or an email is given and the
\* lower-cased password contains the lower-cased email text before "@";
\* otherwise it adds its point; without an email (None or empty) the
\* username alone decides.
C8_Rule6 ==
    [][ pc = "rule6" =>
          LET hasUser == Contains(lower(password), lower(username))
              hasMail == /\ email # None
                         /\ email[1] # ""
                         /\ Contains(lower(password), LocalPart(lower(email[1])))
              failed == feedback' = Append(feedback, MsgRule6) /\ score' = score
              passed == feedback' = feedback /\ score' = score + 1
          IN  /\ failed <=> (hasUser \/ hasMail)
              /\ passed <=> ~(hasUser \/ hasMail)
              /\ (email = None \/ email[1] = "") => (failed <=> hasUser)
      ]_vars

\* rule 6 has failed on the email alone: the password holds the email's
\* local part in another case, and not the username
C8_Witness ==
    /\ pc = "rule7"
    /\ email = Some("A1@x.com")
    /\ MsgRule6 \in Range(feedback)
    /\ ~Contains(lower(password), lower(username))
    /\ ~Contains(password, "A1")

\* C9: a failure at any step of the persistence neither blocks nor changes
\* what is rendered: the handler goes on to render, nothing is raised, the
\* failure is printed, and the page gets the report and the strength of the
\* evaluation.
C9_PersistenceDecoupled ==
    /\ [][ pc = "persist" =>
              /\ pc' = "render"
              /\ exc' = ""
              /\ UNCHANGED << index_feedback, strength, returned >>
              /\ IF session' = "closed" THEN stdout' = stdout
                 ELSE Len(stdout') = Len(stdout) + 1
         ]_vars
    /\ []((pc = "rendered" /\ returned # None) =>
              rendered = Some([feedback |-> returned,
                               strength |-> Some(extract_strength(returned[1]))]))

\* the page has been rendered after a commit that failed
C9_Witness ==
    /\ pc = "rendered"
    /\ returned # None
    /\ session = "open"
    /\ table = << >>
    /\ stdout = << "[x] SQLAlchemy error: commit" >>
    /\ rendered = Some([feedback |-> returned, strength |-> strength])

\* C10: the feedback text index stores is exactly the rule messages in rule
\* order: the marker and the two last lines removed, nothing else added or
\* dropped.
C10_StoredFeedbackIsRuleMessages ==
    /\ pc \in { "persist", "render", "rendered" } /\ returned # None
          => core_feedback = join("\n", RuleMessages)
    /\ \A k \in 1..Len(table) : table[k].feedback = join("\n", RuleMessages)

=============================================================================
